---- MODULE Spec2Model ----
(***************************************************************************)
(* Combat resolution and character progression of the Aesteria RPG bot.    *)
(*                                                                         *)
(* The module has four specifications over one set of variables:           *)
(*   SpecXP      Character.add_experience executed statement by statement  *)
(*               (the while loop of models/character.py is a sequence of   *)
(*               steps, so that its termination is a property of the run); *)
(*   Spec        the handlers of main.py during an encounter, one action   *)
(*               per handler call;                                         *)
(*   SpecSelect  select_monster_for_level called again and again;          *)
(*   SpecInv     registration and the inventory conversation, with the     *)
(*               character cache and its clock.                            *)
(*                                                                         *)
(* Character.experience is a Python int (unbounded) and the requirement    *)
(* of level 100 is about 2.7e19, so experience is kept as an unbounded     *)
(* natural: a little-endian sequence of limbs, without leading zeros.      *)
(***************************************************************************)
EXTENDS Integers, Sequences, FiniteSets, TLC

(***************************************************************************)
(* Unbounded naturals.                                                     *)
(***************************************************************************)
LimbBase == 32 * 1024

RECURSIVE BigNorm(_)
BigNorm(a) ==
  IF a = <<>> THEN <<>>
  ELSE IF a[Len(a)] = 0 THEN BigNorm(SubSeq(a, 1, Len(a) - 1))
  ELSE a

RECURSIVE Big(_)
Big(n) ==
  IF n = 0 THEN <<>> ELSE <<n % LimbBase>> \o Big(n \div LimbBase)

RECURSIVE BigAddC(_, _, _)
BigAddC(a, b, c) ==
  IF a = <<>> /\ b = <<>> THEN (IF c = 0 THEN <<>> ELSE <<c>>)
  ELSE LET x == IF a = <<>> THEN 0 ELSE Head(a)
           y == IF b = <<>> THEN 0 ELSE Head(b)
           s == x + y + c
       IN  <<s % LimbBase>>
             \o BigAddC(IF a = <<>> THEN <<>> ELSE Tail(a),
                        IF b = <<>> THEN <<>> ELSE Tail(b),
                        s \div LimbBase)

BigAdd(a, b) == BigAddC(a, b, 0)

\* a - b for a >= b
RECURSIVE BigSubC(_, _, _)
BigSubC(a, b, c) ==
  IF a = <<>> THEN <<>>
  ELSE LET y == IF b = <<>> THEN 0 ELSE Head(b)
           d == Head(a) - y - c
       IN  <<d % LimbBase>>
             \o BigSubC(Tail(a),
                        IF b = <<>> THEN <<>> ELSE Tail(b),
                        IF d < 0 THEN 1 ELSE 0)

BigSub(a, b) == BigNorm(BigSubC(a, b, 0))

\* a * m + c for a small m
RECURSIVE BigMulC(_, _, _)
BigMulC(a, m, c) ==
  IF a = <<>> THEN Big(c)
  ELSE LET p == Head(a) * m + c
       IN  <<p % LimbBase>> \o BigMulC(Tail(a), m, p \div LimbBase)

BigMul(a, m) == BigNorm(BigMulC(a, m, 0))

BigOdd(a) == a # <<>> /\ a[1] % 2 = 1

RECURSIVE BitLen(_)
BitLen(n) == IF n = 0 THEN 0 ELSE 1 + BitLen(n \div 2)

BigBitLen(a) ==
  IF a = <<>> THEN 0 ELSE 15 * (Len(a) - 1) + BitLen(a[Len(a)])

\* a < b, compared from the most significant limb
RECURSIVE BigLtFrom(_, _, _)
BigLtFrom(a, b, i) ==
  IF i = 0 THEN FALSE
  ELSE IF a[i] # b[i] THEN a[i] < b[i]
  ELSE BigLtFrom(a, b, i - 1)

BigLt(a, b) ==
  IF Len(a) # Len(b) THEN Len(a) < Len(b) ELSE BigLtFrom(a, b, Len(a))

BigGeq(a, b) == ~BigLt(a, b)

\* bit i (from 0) of a
BigBit(a, i) ==
  IF i \div 15 + 1 > Len(a) THEN 0
  ELSE (a[i \div 15 + 1] \div (2 ^ (i % 15))) % 2

\* the limbs of a shifted right by b bits, 0 <= b < 15
RECURSIVE BigShrLimbs(_, _)
BigShrLimbs(a, b) ==
  IF a = <<>> THEN <<>>
  ELSE <<(Head(a) \div (2 ^ b))
          + (IF Len(a) > 1 THEN (a[2] % (2 ^ b)) * (2 ^ (15 - b)) ELSE 0)>>
        \o BigShrLimbs(Tail(a), b)

\* floor(a / 2^s)
BigShr(a, s) ==
  IF s \div 15 >= Len(a) THEN <<>>
  ELSE BigNorm(BigShrLimbs(SubSeq(a, s \div 15 + 1, Len(a)), s % 15))

\* a * 2^s
BigShl(a, s) ==
  IF a = <<>> THEN <<>>
  ELSE [i \in 1..(s \div 15) |-> 0] \o BigMul(a, 2 ^ (s % 15))

\* 3^k, nine factors at a time (3^9 = 19683 keeps a limb product in range)
RECURSIVE BigPow3(_)
BigPow3(k) ==
  IF k = 0 THEN Big(1)
  ELSE IF k < 9 THEN BigMul(BigPow3(k - 1), 3)
  ELSE BigMul(BigPow3(k - 9), 19683)

(***************************************************************************)
(* IEEE-754 double arithmetic, as far as 100 * (1.5 ** k) needs it.  A     *)
(* double is m * 2^e with m below 2^53; a result is rounded to nearest,    *)
(* ties to even.                                                           *)
(***************************************************************************)
MantissaBits == 53

\* the natural n as a double: [m, e] with n ~ m * 2^e.  Of the bits shifted
\* out, the last one is the guard bit and the others are the sticky bits.
RoundToDouble(n) ==
  LET bl == BigBitLen(n)
      s  == bl - MantissaBits
  IN  IF s <= 0 THEN [m |-> n, e |-> 0]
      ELSE LET q      == BigShr(n, s)
               guard  == BigBit(n, s - 1) = 1
               sticky == \E i \in 0..(s - 2) : BigBit(n, i) = 1
               up     == guard /\ (sticky \/ BigOdd(q))
           IN  [m |-> IF up THEN BigAdd(q, Big(1)) ELSE q, e |-> s]

\* 1.5 ** k = 3^k / 2^k, rounded
FloatPow15(k) ==
  LET r == RoundToDouble(BigPow3(k)) IN [m |-> r.m, e |-> r.e - k]

\* c * f for a small integer c, rounded
FloatMul(c, f) ==
  LET r == RoundToDouble(BigMul(f.m, c)) IN [m |-> r.m, e |-> r.e + f.e]

\* int(f) for f >= 0: truncation
FloatToInt(f) ==
  IF f.e >= 0 THEN BigShl(f.m, f.e) ELSE BigShr(f.m, 0 - f.e)

(***************************************************************************)
(* State.                                                                  *)
(*   character        the Character object the handlers work on, which is  *)
(*                    the one held by the cache entry of the player        *)
(*   pc               the control point inside add_experience: "idle"      *)
(*                    outside a call, "while" at the loop test             *)
(*   xp               SpecXP: the history of the add_experience calls      *)
(*   state            the state of the combat conversation                 *)
(*   current_monster  context.user_data['current_monster']                 *)
(*   inventory        character.inventory.items                            *)
(*   inv_state        the state of the inventory conversation              *)
(*   last             Spec: what the last handler call was given and did   *)
(*   updates          the number of updates dispatched so far              *)
(*   store            the row of the table characters for the player       *)
(*   catalog          the rows of the table monsters                       *)
(*   commit_failures  the number of commits the store has refused          *)
(*   default_monster  the module-level dict DEFAULT_MONSTERS[0]            *)
(*   equipment        the rows of the table equipment                      *)
(*   character_cache  the entry of character_cache for the player          *)
(*   items_table      the rows of the table items made by create_character *)
(***************************************************************************)
VARIABLES character, pc, xp, state, current_monster, inventory, inv_state,
          last, updates, store, catalog, commit_failures, default_monster,
          equipment,
          character_cache,
          items_table

vars == <<character, pc, xp, state, current_monster, inventory, inv_state,
          last, updates, store, catalog, commit_failures,
          default_monster,
          equipment,
          character_cache,
          items_table>>

gamevars ==
  <<state, current_monster, inventory, inv_state, last, updates, store,
    catalog, commit_failures, default_monster,
    equipment,
    character_cache,
    items_table>>

(***************************************************************************)
(* models/character.py                                                     *)
(***************************************************************************)
BASE_HEALTH == 100
BASE_MANA == 50
BASE_STRENGTH == 10
BASE_DEFENSE == 5

CharacterClass == {"warrior", "mage", "rogue"}

\* int(100 * (1.5 ** (level - 1))), one entry per level, computed once
\* (101 is the level one past the ceiling of level_up)
LevelUpRequirements ==
  [l \in 1..101 |-> FloatToInt(FloatMul(100, FloatPow15(l - 1)))]

calculate_level_up_requirements_exponent(c) == LevelUpRequirements[c.level + 1]

calculate_level_up_requirements(c) == LevelUpRequirements[c.level]

level_up_off_by_one(c) ==
  IF c.level > 100 THEN [result |-> FALSE, character |-> c]
  ELSE [result |-> TRUE,
        character |-> [c EXCEPT !.level = @ + 1,
                                !.max_health = @ + 10,
                                !.health = c.max_health + 10,
                                !.max_mana = @ + 5,
                                !.mana = c.max_mana + 5,
                                !.strength = @ + 2,
                                !.defense = @ + 1]]

level_up_no_restore(c) ==
  IF c.level >= 100 THEN [result |-> FALSE, character |-> c]
  ELSE [result |-> TRUE,
        character |-> [c EXCEPT !.level = @ + 1,
                                !.max_health = @ + 10,
                                !.max_mana = @ + 5,
                                !.strength = @ + 2,
                                !.defense = @ + 1]]

\* Character.level_up: the value returned and the character afterwards
level_up(c) ==
  IF c.level >= 100 THEN [result |-> FALSE, character |-> c]
  ELSE [result |-> TRUE,
        character |-> [c EXCEPT !.level = @ + 1,
                                !.max_health = @ + 10,
                                !.health = c.max_health + 10,
                                !.max_mana = @ + 5,
                                !.mana = c.max_mana + 5,
                                !.strength = @ + 2,
                                !.defense = @ + 1]]

\* A character of the given level as the program builds it: the column
\* defaults of a new row, then level - 1 level-ups.
CharacterAt(class, level, experience, health) ==
  [character_class |-> class,
   level      |-> level,
   experience |-> experience,
   health     |-> health,
   max_health |-> BASE_HEALTH + 10 * (level - 1),
   mana       |-> BASE_MANA + 5 * (level - 1),
   max_mana   |-> BASE_MANA + 5 * (level - 1),
   strength   |-> BASE_STRENGTH + 2 * (level - 1),
   defense    |-> BASE_DEFENSE + (level - 1)]

\* while self.experience >= self.calculate_level_up_requirements():
\*     self.level_up()
\* as a function of the character at the loop test.  The loop body is
\* deterministic, so an iteration that leaves the character as it was is
\* repeated for ever: hang is TRUE and the call never returns.
while_level_up_once(c) ==
  IF BigGeq(c.experience, calculate_level_up_requirements(c))
  THEN [hang |-> FALSE, character |-> level_up(c).character]
  ELSE [hang |-> FALSE, character |-> c]

RECURSIVE while_level_up(_)
while_level_up(c) ==
  IF BigGeq(c.experience, calculate_level_up_requirements(c))
  THEN IF level_up(c).character = c
       THEN [hang |-> TRUE, character |-> c]
       ELSE while_level_up(level_up(c).character)
  ELSE [hang |-> FALSE, character |-> c]

\* Character.add_experience as one call
add_experience(c, amount) ==
  while_level_up([c EXCEPT !.experience = BigAdd(@, amount)])

(***************************************************************************)
(* SpecXP: add_experience statement by statement.                          *)
(***************************************************************************)
MaxCalls == 2

XPAmounts == {Big(0), Big(10), Big(100), Big(125), Big(600)}

\* Characters between two calls: experience below the requirement of the
\* level, and not below that of the level before.
XPCharacters ==
  { CharacterAt("warrior", 1, Big(0), 100),
    CharacterAt("mage", 1, Big(0), 37),
    CharacterAt("rogue", 1, Big(95), 100),
    CharacterAt("warrior", 2, Big(100), 64),
    CharacterAt("mage", 99, BigSub(LevelUpRequirements[99], Big(10)), 500),
    CharacterAt("rogue", 100, LevelUpRequirements[99], 1090),
    CharacterAt("warrior", 100, BigSub(LevelUpRequirements[100], Big(10)), 3) }

NoLevelUp == [called |-> FALSE]

END == "END"
\* The value of the key 'health' of a monster dict is a number or a text.
PyInt(n) == [int |-> n]
PyStr(s) == [str |-> s]
\* Python subtracts only from a number: str - int raises TypeError.
IsNumber(v) == "int" \in DOMAIN v

\* A monster: the columns of a models/monsters.py row that the combat
\* handlers read.
MonsterDict(name, level, health, damage, defense, experience_reward) ==
  [name |-> name, level |-> level, health |-> PyInt(health),
   max_health |-> health,
   damage |-> damage, defense |-> defense,
   experience_reward |-> experience_reward]

\* DEFAULT_MONSTERS[0]
DefaultMonsterTemplate == MonsterDict("Goblin", 1, 50, 5, 2, 10)

None == "None"
NoCall == [handler |-> None]
\* No row of the table characters for the player
NoCharacter == [character_class |-> None]

\* character_cache[user_id]: no entry, or an entry whose timestamp lies age
\* seconds back.  The Character object of the entry is the variable
\* character.
NoEntry == [cached |-> FALSE]
Entry(age) == [cached |-> TRUE, age |-> age]
Fresh == Entry(0)
CACHE_TIMEOUT == 300

\* The same lookup trusting an entry of any age
get_character_by_user_id_no_timeout(cache, cached_character, row) ==
  IF cache.cached
  THEN [character |-> cached_character, cache |-> cache]
  ELSE IF row # NoCharacter
  THEN [character |-> row, cache |-> Fresh]
  ELSE [character |-> NoCharacter, cache |-> cache]

\* get_character_by_user_id, for the entry cache, the Character object
\* cached_character of that entry and the row of the store: the character
\* returned and the entry afterwards.  A row read from the store is cached
\* with the time of the call; the absence of a row is not cached.
get_character_by_user_id(cache, cached_character, row) ==
  IF cache.cached /\ cache.age < CACHE_TIMEOUT
  THEN [character |-> cached_character, cache |-> cache]
  ELSE IF row # NoCharacter
  THEN [character |-> row, cache |-> Fresh]
  ELSE [character |-> NoCharacter, cache |-> cache]
\* context.user_data without the key current_monster
NoMonster == [name |-> None]

InitXP ==
  /\ character \in XPCharacters
  /\ pc = "idle"
  /\ state = END
  /\ current_monster = NoMonster
  /\ inventory = <<>>
  /\ inv_state = END
  /\ last = NoCall
  /\ updates = 0
  /\ store = character
  /\ catalog = <<>>
  /\ commit_failures = 0
  /\ default_monster = DefaultMonsterTemplate
  /\ equipment = <<>>
  /\ character_cache = Fresh
  /\ items_table = <<>>
  /\ xp = [calls |-> 0, start |-> character, granted |-> Big(0),
           call_start |-> character, amount |-> Big(0),
           last_level_up |-> NoLevelUp, spin |-> 0]

\* self.experience += amount
add_experience_enter(amount) ==
  /\ pc = "idle"
  /\ xp.calls < MaxCalls
  /\ character' = [character EXCEPT !.experience = BigAdd(@, amount)]
  /\ pc' = "while"
  /\ xp' = [xp EXCEPT !.calls = @ + 1,
                      !.granted = BigAdd(@, amount),
                      !.call_start = character,
                      !.amount = amount,
                      !.last_level_up = NoLevelUp,
                      !.spin = 0]
  /\ UNCHANGED gamevars

add_experience_body_if ==
  /\ pc = "while"
  /\ BigGeq(character.experience, calculate_level_up_requirements(character))
  /\ character' = level_up(character).character
  /\ pc' = "idle"
  /\ xp' = [xp EXCEPT !.last_level_up =
                         [called |-> TRUE, before |-> character,
                          result |-> level_up(character).result,
                          after  |-> level_up(character).character],
                      !.spin = 1 - @]
  /\ UNCHANGED gamevars

\* the loop test holds: self.level_up()
add_experience_body ==
  /\ pc = "while"
  /\ BigGeq(character.experience, calculate_level_up_requirements(character))
  /\ character' = level_up(character).character
  /\ pc' = "while"
  /\ xp' = [xp EXCEPT !.last_level_up =
                         [called |-> TRUE, before |-> character,
                          result |-> level_up(character).result,
                          after  |-> level_up(character).character],
                      !.spin = 1 - @]
  /\ UNCHANGED gamevars

\* the loop test fails: the call returns
add_experience_return ==
  /\ pc = "while"
  /\ ~BigGeq(character.experience, calculate_level_up_requirements(character))
  /\ pc' = "idle"
  /\ UNCHANGED <<character, xp>>
  /\ UNCHANGED gamevars

NextXP ==
  \/ \E amount \in XPAmounts : add_experience_enter(amount)
  \/ add_experience_body
  \/ add_experience_return

SpecXP == InitXP /\ [][NextXP]_vars

\* A running loop keeps running: the steps of a call are taken.
FairSpecXP == SpecXP /\ WF_vars(add_experience_body \/ add_experience_return)

(***************************************************************************)
(* Spec: the handlers of main.py, one action per handler call.             *)
(*                                                                         *)
(* The lookup of the player's character at the head of a handler is the    *)
(* character store's business and is taken to return the character.  A     *)
(* handler that raises leaves the conversation in the state it was in.     *)
(* Callback queries go to the first conversation that is in a state, and   *)
(* the inventory conversation is registered before the combat one.         *)
(***************************************************************************)
IN_COMBAT == "IN_COMBAT"
CHOOSING_SKILL == "CHOOSING_SKILL"
CHOOSING_ITEM == "CHOOSING_ITEM"
INVENTORY_MANAGEMENT == "INVENTORY_MANAGEMENT"
EQUIPPING_ITEM == "EQUIPPING_ITEM"
USING_ITEM == "USING_ITEM"

COMBAT_ACTIONS == {"attack", "skill", "item", "flee"}

Max(a, b) == IF a >= b THEN a ELSE b
Min(a, b) == IF a <= b THEN a ELSE b

\* random.uniform(0.8, 1.2), in hundredths: the ends and the middle
Variances == {80, 100, 120}

DEFAULT_MONSTERS ==
  { MonsterDict("Goblin", 1, 50, 5, 2, 10),
    MonsterDict("Orc Warrior", 5, 150, 15, 8, 50),
    MonsterDict("Dragon", 20, 1000, 50, 30, 500) }

\* The rows of the table monsters, in the order of the table: none yet, or
\* the three default monsters.
Catalogs ==
  { <<>>,
    << MonsterDict("Goblin", 1, 50, 5, 2, 10),
       MonsterDict("Orc Warrior", 5, 150, 15, 8, 50),
       MonsterDict("Dragon", 20, 1000, 50, 30, 500) >> }

\* The same, writing the level into DEFAULT_MONSTERS[0] itself instead of
\* into a copy of it
select_monster_for_level_no_copy(rows, template, character_level) ==
  LET monsters == SelectSeq(rows, LAMBDA m : /\ m.level >= character_level - 2
                                            /\ m.level <= character_level + 2)
      monster_data == [template EXCEPT !.level = character_level]
  IN  IF monsters = <<>>
      THEN [monster |-> monster_data, rows |-> Append(rows, monster_data),
            template |-> monster_data]
      ELSE [monster |-> monsters[1], rows |-> rows, template |-> template]

\* The same, returning the last of the matching rows
select_monster_for_level_last(rows, template, character_level) ==
  LET monsters == SelectSeq(rows, LAMBDA m : /\ m.level >= character_level - 2
                                            /\ m.level <= character_level + 2)
      monster_data == [template EXCEPT !.level = character_level]
  IN  IF monsters = <<>>
      THEN [monster |-> monster_data, rows |-> Append(rows, monster_data),
            template |-> template]
      ELSE [monster |-> monsters[Len(monsters)], rows |-> rows,
            template |-> template]

\* select_monster_for_level, with template the dict DEFAULT_MONSTERS[0]: the
\* monster returned, the rows of the table afterwards and the template
\* afterwards.  The level is written into a copy of the template
\* (dict.copy()), and the monster made of the copy is added and committed.
select_monster_for_level(rows, template, character_level) ==
  LET monsters == SelectSeq(rows, LAMBDA m : /\ m.level >= character_level - 2
                                            /\ m.level <= character_level + 2)
      monster_data == [template EXCEPT !.level = character_level]
  IN  IF monsters = <<>>
      THEN [monster |-> monster_data, rows |-> Append(rows, monster_data),
            template |-> template]
      ELSE [monster |-> monsters[1], rows |-> rows, template |-> template]

\* Monster.get_stats: the dict that combat() stores as current_monster.  Its
\* health is the text "<health>/<max_health>", and it has no max_health and
\* no experience_reward.
get_stats(monster) ==
  [name |-> monster.name, level |-> monster.level,
   health |-> PyStr(ToString(monster.health.int) \o "/"
                      \o ToString(monster.max_health)),
   damage |-> monster.damage, defense |-> monster.defense]

\* An InventoryItem with the columns of its Item that the handlers read.
\* item_id is the id of the Item, in a table items that holds ten items
\* made before those of this character.
InventoryItem(id, item_type, health_bonus, mana_bonus, quantity) ==
  [id |-> id, item_id |-> 10 + id, item_type |-> item_type,
   health_bonus |-> health_bonus,
   mana_bonus |-> mana_bonus, quantity |-> quantity]

\* The two starting items of a class, and the same with two consumables.
Inventories ==
  { << InventoryItem(1, "weapon", 0, 0, 1), InventoryItem(2, "armor", 0, 0, 1) >>,
    << InventoryItem(1, "weapon", 0, 0, 1), InventoryItem(2, "armor", 0, 0, 1),
       InventoryItem(3, "consumable", 30, 0, 2),
       InventoryItem(4, "consumable", 0, 20, 1) >> }

ItemIds == 1..4

GameCharacters ==
  { CharacterAt("warrior", 1, Big(0), 100),
    CharacterAt("mage", 4, BigSub(LevelUpRequirements[4], Big(5)), 12),
    CharacterAt("rogue", 99, BigSub(LevelUpRequirements[99], Big(5)), 40),
    CharacterAt("warrior", 100, BigSub(LevelUpRequirements[100], Big(5)), 25) }

\* What a handler call was given and did: the draws it used (0 for a draw
\* it did not make), the character and the monster dict before it, how often
\* it applied the player's damage and the monster's, and how it ended.  roll
\* and commit_ok are set by the calls that flee and that commit.
Call(handler, data, raised, outcome, pv, mv, player_hits, monster_hits) ==
  [handler |-> handler, data |-> data, raised |-> raised,
   outcome |-> outcome,
   player_variance |-> pv,
   monster_variance |-> mv,
   player_hits |-> player_hits, monster_hits |-> monster_hits,
   character_before |-> character, monster_before |-> current_monster,
   inventory_before |-> inventory, store_before |-> store,
   catalog_before |-> catalog, equipment_before |-> equipment,
   cache_before |-> character_cache,
   roll |-> 0, commit_ok |-> TRUE]

\* The monster dicts the combat handlers are given: the snapshot that
\* combat() stores, and the dict with numbers for health and a reward that the
\* arithmetic of handle_attack and handle_combat_victory takes.
CurrentMonsters == {get_stats(DefaultMonsterTemplate)} \cup DEFAULT_MONSTERS

\* A session in an encounter, before the first button is pressed.
Init ==
  /\ character \in GameCharacters
  /\ pc = "idle"
  /\ xp = [calls |-> 0, start |-> character, granted |-> Big(0),
           call_start |-> character, amount |-> Big(0),
           last_level_up |-> NoLevelUp, spin |-> 0]
  /\ state = IN_COMBAT
  /\ current_monster \in CurrentMonsters
  /\ inventory \in Inventories
  /\ inv_state = END
  /\ last = NoCall
  /\ updates = 0
  /\ store = character
  /\ catalog \in Catalogs
  /\ commit_failures = 0
  /\ default_monster = DefaultMonsterTemplate
  /\ equipment = <<>>
  /\ character_cache = Fresh
  /\ items_table = <<>>

\* calculate_monster_damage, for the draw v
calculate_monster_damage(monster, v) == (monster.damage * v) \div 100

\* handle_item_drops
handle_item_drops(monster) == <<>>

\* handle_combat_victory: the character afterwards, and whether the call
\* is caught in the loop of add_experience
handle_combat_victory(c, monster) ==
  add_experience(c, Big(monster.experience_reward))

\* A defeat handler leaving the health where the monster brought it
handle_combat_defeat_no_restore(c) == c

\* A defeat handler that takes a level as well
handle_combat_defeat_level_loss(c) ==
  [c EXCEPT !.health = c.max_health, !.mana = c.max_mana,
            !.level = Max(1, @ - 1)]

\* handle_combat_defeat: the character afterwards
handle_combat_defeat(c) ==
  [c EXCEPT !.health = c.max_health, !.mana = c.max_mana]

\* The updates of one session that are modelled
MaxUpdates == 3

\* The commits of one session that the store refuses
MaxCommitFailures == 1

\* The updates that are modelled of a session with no encounter in it
MaxInventoryUpdates == 5

\* The dispatcher takes the next update of the session.
Dispatch ==
  /\ pc = "idle"
  /\ updates < (IF current_monster = NoMonster THEN MaxInventoryUpdates
                ELSE MaxUpdates)
  /\ updates' = updates + 1

\* random.random(), in hundredths; the flight succeeds below 0.5
FleeRolls == {49, 50}

\* The rows of the table monsters after a handler has changed the dict
\* monster: the dict of get_stats is not a row, and no row is written.
\* With the dict sharing the row's health
monster_rows_shared(rows, monster) ==
  [i \in DOMAIN rows |->
     IF rows[i].name = monster.name /\ IsNumber(monster.health)
     THEN [rows[i] EXCEPT !.health = monster.health] ELSE rows[i]]

monster_rows(rows, monster) == rows

\* combat: the /combat command, the entry point of the combat conversation
combat ==
  /\ Dispatch
  /\ state = END
  /\ LET selected == select_monster_for_level(catalog, default_monster,
                                              character.level)
     IN  /\ catalog' = selected.rows
         /\ default_monster' = selected.template
         /\ current_monster' = get_stats(selected.monster)
  /\ state' = IN_COMBAT
  /\ last' = Call("combat", "/combat", FALSE, "started", 0, 0, 0, 0)
  /\ UNCHANGED <<character, pc, xp, inventory, inv_state, store,
                 commit_failures,
                 equipment,
                 character_cache,
                 items_table>>

\* db.commit() on the session of get_db(): the row that the store holds
\* afterwards.  A commit that fails raises and leaves the row as it was.
commit(c, commit_ok) == IF commit_ok THEN c ELSE store

\* handle_attack, for the draws pv (the player's damage) and mv (the
\* monster's) and the outcome of the commit.  The monster dict and the
\* character are changed in place, before the commit, on every path.
handle_attack(pv, mv, commit_ok) ==
  LET final_damage == (character.strength * pv) \div 100
      monster == [current_monster EXCEPT
                    !.health = PyInt(Max(0, @.int - final_damage))]
  IN  IF ~IsNumber(current_monster.health)
      THEN /\ last' = Call("handle_attack", "attack", TRUE, "TypeError",
                           pv, 0, 0, 0)
           /\ UNCHANGED <<character, pc, xp, state, current_monster,
                          inventory, inv_state, store>>
      ELSE /\ current_monster' = monster
           /\ IF monster.health.int <= 0
              THEN IF "experience_reward" \notin DOMAIN monster
                   THEN /\ last' = Call("handle_attack", "attack", TRUE,
                                        "KeyError", pv, 0, 1, 0)
                        /\ UNCHANGED <<character, pc, state, store>>
                   ELSE LET v == handle_combat_victory(character, monster)
                        IN  /\ character' = v.character
                            /\ pc' = IF v.hang THEN "while" ELSE "idle"
                            /\ state' = IF v.hang \/ ~commit_ok
                                        THEN state ELSE END
                            /\ store' = IF v.hang THEN store
                                        ELSE commit(v.character, commit_ok)
                            /\ last' =
                                 [Call("handle_attack", "attack",
                                       ~v.hang /\ ~commit_ok,
                                       IF v.hang THEN "hang" ELSE "victory",
                                       pv, 0, 1, 0)
                                    EXCEPT !.commit_ok = v.hang \/ commit_ok]
              ELSE LET monster_damage == calculate_monster_damage(monster, mv)
                       c == [character EXCEPT
                               !.health = Max(0, @ - monster_damage)]
                       defeated == c.health <= 0
                       after == IF defeated THEN handle_combat_defeat(c)
                                ELSE c
                   IN  /\ pc' = pc
                       /\ character' = after
                       /\ state' = IF defeated /\ commit_ok
                                   THEN END ELSE IN_COMBAT
                       /\ store' = commit(after, commit_ok)
                       /\ last' =
                            [Call("handle_attack", "attack", ~commit_ok,
                                  IF defeated THEN "defeat" ELSE "continue",
                                  pv, mv, 1, 1)
                               EXCEPT !.commit_ok = commit_ok]
           /\ UNCHANGED <<xp, inventory, inv_state>>

\* get_character_skills: the two skills of a class, damage_multiplier in
\* tenths
get_character_skills(character_class) ==
  CASE character_class = "warrior" ->
         << [id |-> "slash", damage_multiplier |-> 15, mana_cost |-> 10],
            [id |-> "whirlwind", damage_multiplier |-> 20, mana_cost |-> 20] >>
    [] character_class = "mage" ->
         << [id |-> "fireball", damage_multiplier |-> 20, mana_cost |-> 15],
            [id |-> "lightning", damage_multiplier |-> 25, mana_cost |-> 25] >>
    [] OTHER ->
         << [id |-> "backstab", damage_multiplier |-> 20, mana_cost |-> 15],
            [id |-> "poison_strike", damage_multiplier |-> 15,
             mana_cost |-> 10] >>

\* The callback data of the buttons that handle_skill_selection shows
SkillCallbackData(character_class) ==
  LET skills == get_character_skills(character_class)
  IN  { "skill_" \o skills[i].id : i \in DOMAIN skills } \cup {"back"}

\* handle_skill_selection, called by handle_combat_action
handle_skill_selection ==
  /\ state' = CHOOSING_SKILL
  /\ last' = Call("handle_skill_selection", "skill", FALSE, "menu", 0, 0, 0, 0)
  /\ UNCHANGED <<character, pc, xp, current_monster, inventory, inv_state,
                 store>>

get_consumable_items(items) ==
  SelectSeq(items, LAMBDA item : item.item_type = "consumable")

\* handle_item_selection, called by handle_combat_action.  With consumables
\* in the inventory the keyboard is built from item.name, which an
\* InventoryItem does not have: AttributeError.
handle_item_selection ==
  /\ state' = IN_COMBAT
  /\ last' = IF get_consumable_items(inventory) = <<>>
             THEN Call("handle_item_selection", "item", FALSE, "no items",
                       0, 0, 0, 0)
             ELSE Call("handle_item_selection", "item", TRUE,
                       "AttributeError", 0, 0, 0, 0)
  /\ UNCHANGED <<character, pc, xp, current_monster, inventory, inv_state,
                 store>>

\* The same with the monster striking a character that got away
handle_flee_struck_in_flight(roll, mv, commit_ok) ==
  LET monster_damage == calculate_monster_damage(current_monster, mv)
      c == [character EXCEPT !.health = Max(0, @ - monster_damage)]
      defeated == c.health <= 0
      after == IF defeated THEN handle_combat_defeat(c) ELSE c
  IN  IF roll < 50
      THEN /\ state' = END
           /\ character' = c
           /\ last' = [Call("handle_flee", "flee", FALSE, "fled", 0, 0, 0, 0)
                         EXCEPT !.roll = roll]
           /\ UNCHANGED <<pc, xp, current_monster, inventory, inv_state,
                          store>>
      ELSE /\ character' = after
           /\ state' = IF defeated /\ commit_ok THEN END ELSE IN_COMBAT
           /\ store' = commit(after, commit_ok)
           /\ last' =
                [Call("handle_flee", "flee",
                      \/ ~commit_ok
                      \/ /\ ~defeated
                         /\ "max_health" \notin DOMAIN current_monster,
                      IF defeated THEN "defeat" ELSE "continue",
                      0, mv, 0, 1)
                   EXCEPT !.roll = roll, !.commit_ok = commit_ok]
           /\ UNCHANGED <<pc, xp, current_monster, inventory, inv_state>>

\* handle_flee, for the draws roll (the flight) and mv (the monster's damage)
\* and the outcome of the commit.  The text of the failed flight reads
\* monster['max_health'], which the dict of get_stats does not have:
\* KeyError, after the commit.
handle_flee(roll, mv, commit_ok) ==
  IF roll < 50
  THEN /\ state' = END
       /\ last' = [Call("handle_flee", "flee", FALSE, "fled", 0, 0, 0, 0)
                     EXCEPT !.roll = roll]
       /\ UNCHANGED <<character, pc, xp, current_monster, inventory,
                      inv_state, store>>
  ELSE LET monster_damage == calculate_monster_damage(current_monster, mv)
           c == [character EXCEPT !.health = Max(0, @ - monster_damage)]
           defeated == c.health <= 0
           after == IF defeated THEN handle_combat_defeat(c) ELSE c
       IN  /\ character' = after
           /\ state' = IF defeated /\ commit_ok THEN END ELSE IN_COMBAT
           /\ store' = commit(after, commit_ok)
           /\ last' =
                [Call("handle_flee", "flee",
                      \/ ~commit_ok
                      \/ /\ ~defeated
                         /\ "max_health" \notin DOMAIN current_monster,
                      IF defeated THEN "defeat" ELSE "continue",
                      0, mv, 0, 1)
                   EXCEPT !.roll = roll, !.commit_ok = commit_ok]
           /\ UNCHANGED <<pc, xp, current_monster, inventory, inv_state>>

\* The callback data a button of some keyboard sent so far can carry.
CombatCallbackData == COMBAT_ACTIONS \cup {"back"}

\* handle_combat_action: the callback query handler of IN_COMBAT
handle_combat_action(action, pv, mv, roll, commit_ok) ==
  /\ Dispatch
  /\ inv_state = END
  /\ state = IN_COMBAT
  /\ commit_ok \/ commit_failures < MaxCommitFailures
  /\ IF action \notin COMBAT_ACTIONS
     THEN /\ state' = IN_COMBAT
          /\ last' = Call("handle_combat_action", action, FALSE, "ignored",
                          0, 0, 0, 0)
          /\ UNCHANGED <<character, pc, xp, current_monster, inventory,
                         inv_state, store>>
     ELSE IF current_monster = NoMonster
     THEN /\ state' = END
          /\ last' = Call("handle_combat_action", action, FALSE,
                          "ended unexpectedly", 0, 0, 0, 0)
          /\ UNCHANGED <<character, pc, xp, current_monster, inventory,
                         inv_state, store>>
     ELSE CASE action = "attack" -> handle_attack(pv, mv, commit_ok)
            [] action = "skill"  -> handle_skill_selection
            [] action = "item"   -> handle_item_selection
            [] action = "flee"   -> handle_flee(roll, mv, commit_ok)
  /\ catalog' = monster_rows(catalog, current_monster')
  /\ commit_failures' = IF last'.commit_ok THEN commit_failures
                        ELSE commit_failures + 1
  /\ UNCHANGED <<default_monster, equipment, character_cache, items_table>>

\* The callback query handler of CHOOSING_SKILL is handle_skill_selection,
\* which is called with (update, context) and has a third parameter:
\* TypeError, whatever the button.
choosing_skill_callback(data) ==
  /\ Dispatch
  /\ UNCHANGED <<catalog, commit_failures, default_monster,
                 equipment,
                 character_cache,
                 items_table>>
  /\ inv_state = END
  /\ state = CHOOSING_SKILL
  /\ data \in SkillCallbackData(character.character_class)
  /\ last' = Call("handle_skill_selection", data, TRUE, "TypeError",
                  0, 0, 0, 0)
  /\ UNCHANGED <<character, pc, xp, state, current_monster, inventory,
                 inv_state, store>>

\* inventory: the /inventory command, the entry point of the inventory
\* conversation
inventory_command ==
  /\ Dispatch
  /\ UNCHANGED <<catalog, commit_failures, default_monster, equipment, items_table>>
  /\ inv_state = END
  /\ LET found == get_character_by_user_id(character_cache, character, store)
     IN  /\ character_cache' = found.cache
         /\ character' = IF found.character = NoCharacter THEN character
                         ELSE found.character
         /\ inv_state' = IF found.character = NoCharacter \/ inventory = <<>>
                         THEN END ELSE INVENTORY_MANAGEMENT
         /\ last' = Call("inventory", "/inventory", FALSE,
                         IF found.character = NoCharacter THEN "no character"
                         ELSE "menu", 0, 0, 0, 0)
  /\ UNCHANGED <<pc, xp, state, current_monster, inventory, store>>

\* The items that the keyboard of Equip Item shows: weapons and armor
get_equippable_items(items) ==
  SelectSeq(items, LAMBDA item : item.item_type \in {"weapon", "armor"})

\* handle_inventory_action: the callback query handler of
\* INVENTORY_MANAGEMENT, for the buttons Close, Use Item and Drop Item and
\* for the buttons of the keyboard of Drop Item (drop_<id>), which no branch
\* takes.
InventoryCallbackData == {"close_inventory", "use", "drop", "drop_3"}

handle_inventory_action(action) ==
  /\ Dispatch
  /\ UNCHANGED <<catalog, commit_failures, default_monster,
                 equipment,
                 character_cache,
                 items_table>>
  /\ inv_state = INVENTORY_MANAGEMENT
  /\ inv_state' =
       CASE action = "close_inventory" -> END
         [] action = "use" ->
              IF get_consumable_items(inventory) = <<>>
              THEN END ELSE USING_ITEM
         [] action = "equip" ->
              IF get_equippable_items(inventory) = <<>>
              THEN END ELSE EQUIPPING_ITEM
         [] action = "drop" -> INVENTORY_MANAGEMENT
         [] OTHER -> inv_state
  /\ last' = Call("handle_inventory_action", action, FALSE, "menu",
                  0, 0, 0, 0)
  /\ UNCHANGED <<character, pc, xp, state, current_monster, inventory,
                 store>>

\* The same without the db.delete of the entry that has run out
RemoveOne_no_delete(items, i) == [items EXCEPT ![i].quantity = @ - 1]

\* The inventory after one use of the entry at position i
RemoveOne(items, i) ==
  IF items[i].quantity - 1 <= 0
  THEN SubSeq(items, 1, i - 1) \o SubSeq(items, i + 1, Len(items))
  ELSE [items EXCEPT ![i].quantity = @ - 1]

\* The callback data of the keyboard of Use Item, as the parts that
\* data.split("_") separates: use_<id> for each consumable, and Back.
back_to_inventory == <<"back", "to", "inventory">>
UseCallbackData == {<<"use", id>> : id \in ItemIds} \cup {back_to_inventory}

\* The same test letting every item through
cannot_be_used_never(item) == FALSE

\* The test of handle_use_item that refuses an item: its type is not
\* ItemType.CONSUMABLE
cannot_be_used(item) == item.item_type # "consumable"

\* The same handler with no ceiling on the restored health and mana
handle_use_item_no_ceiling(data) ==
  /\ Dispatch
  /\ UNCHANGED <<catalog, commit_failures, default_monster,
                 equipment,
                 character_cache,
                 items_table>>
  /\ inv_state = USING_ITEM
  /\ IF data = back_to_inventory
     THEN /\ last' = Call("handle_use_item", data, TRUE, "AttributeError",
                          0, 0, 0, 0)
          /\ UNCHANGED <<character, inventory, inv_state, store>>
     ELSE LET item_id == data[2]
              found == {i \in 1..Len(inventory) : inventory[i].id = item_id}
          IN  IF found = {}
              THEN /\ inv_state' = END
                   /\ last' = Call("handle_use_item", data, FALSE,
                                   "not found", 0, 0, 0, 0)
                   /\ UNCHANGED <<character, inventory, store>>
              ELSE LET i == CHOOSE i \in found : \A j \in found : i <= j
                       item == inventory[i]
                   IN  IF cannot_be_used(item)
                       THEN /\ inv_state' = END
                            /\ last' = Call("handle_use_item", data, FALSE,
                                            "cannot be used", 0, 0, 0, 0)
                            /\ UNCHANGED <<character, inventory, store>>
                       ELSE /\ store' =
                                 [store EXCEPT
                                    !.health = @ + item.health_bonus,
                                    !.mana = @ + item.mana_bonus]
                            /\ inventory' = RemoveOne(inventory, i)
                            /\ character' = character
                            /\ inv_state' = inv_state
                            /\ last' = Call("handle_use_item", data, TRUE,
                                            "used", 0, 0, 0, 0)
  /\ UNCHANGED <<pc, xp, state, current_monster>>

\* handle_use_item: the callback query handler of USING_ITEM.  The
\* character it writes to is the one that db.query(Character) reads from the
\* store in a session of its own, not the object of character_cache, and the
\* handler does not clear the cache.  The call of
\* inventory(update, context) that ends the Back branch and the successful
\* use replies to update.message, which a callback query update does not
\* have: the handler raises there, after the commit of the use, and the
\* conversation keeps its state.
handle_use_item(data) ==
  /\ Dispatch
  /\ UNCHANGED <<catalog, commit_failures, default_monster,
                 equipment,
                 character_cache,
                 items_table>>
  /\ inv_state = USING_ITEM
  /\ IF data = back_to_inventory
     THEN /\ last' = Call("handle_use_item", data, TRUE, "AttributeError",
                          0, 0, 0, 0)
          /\ UNCHANGED <<character, inventory, inv_state, store>>
     ELSE LET item_id == data[2]
              found == {i \in 1..Len(inventory) : inventory[i].id = item_id}
          IN  IF found = {}
              THEN /\ inv_state' = END
                   /\ last' = Call("handle_use_item", data, FALSE,
                                   "not found", 0, 0, 0, 0)
                   /\ UNCHANGED <<character, inventory, store>>
              ELSE LET i == CHOOSE i \in found : \A j \in found : i <= j
                       item == inventory[i]
                   IN  IF cannot_be_used(item)
                       THEN /\ inv_state' = END
                            /\ last' = Call("handle_use_item", data, FALSE,
                                            "cannot be used", 0, 0, 0, 0)
                            /\ UNCHANGED <<character, inventory, store>>
                       ELSE /\ store' =
                                 [store EXCEPT
                                    !.health = Min(store.max_health,
                                                   @ + item.health_bonus),
                                    !.mana = Min(store.max_mana,
                                                 @ + item.mana_bonus)]
                            /\ inventory' = RemoveOne(inventory, i)
                            /\ character' = character
                            /\ inv_state' = inv_state
                            /\ last' = Call("handle_use_item", data, TRUE,
                                            "used", 0, 0, 0, 0)
  /\ UNCHANGED <<pc, xp, state, current_monster>>

\* character.id of the player of the session
CharacterId == 1

\* An Equipment row
Equipment(character_id, item_id, slot) ==
  [character_id |-> character_id, item_id |-> item_id, slot |-> slot]

\* The same query finding nothing
existing_equipment_none(rows, character_id, item_id) == <<>>

\* db.query(Equipment).filter(Equipment.character_id == character_id,
\* Equipment.item_id == item_id): the rows of that character and item
existing_equipment(rows, character_id, item_id) ==
  SelectSeq(rows, LAMBDA e : /\ e.character_id = character_id
                            /\ e.item_id = item_id)

\* The callback data of the keyboard of Equip Item: equip_<id> and Back
EquipCallbackData == {<<"equip", id>> : id \in ItemIds} \cup {back_to_inventory}

\* handle_equip_item: the callback query handler of EQUIPPING_ITEM.  As in
\* handle_use_item, the call of inventory(update, context) raises after the
\* commit, and on Back.
handle_equip_item(data) ==
  /\ Dispatch
  /\ UNCHANGED <<catalog, commit_failures, default_monster, character_cache,
                 items_table>>
  /\ inv_state = EQUIPPING_ITEM
  /\ IF data = back_to_inventory
     THEN /\ last' = Call("handle_equip_item", data, TRUE, "AttributeError",
                          0, 0, 0, 0)
          /\ UNCHANGED <<inv_state, equipment>>
     ELSE LET item_id == data[2]
              found == {i \in 1..Len(inventory) : inventory[i].id = item_id}
          IN  IF found = {}
              THEN /\ inv_state' = END
                   /\ last' = Call("handle_equip_item", data, FALSE,
                                   "not found", 0, 0, 0, 0)
                   /\ UNCHANGED equipment
              ELSE LET i == CHOOSE i \in found : \A j \in found : i <= j
                       inventory_item == inventory[i]
                   IN  IF existing_equipment(equipment, CharacterId,
                                             inventory_item.item_id) # <<>>
                       THEN /\ inv_state' = END
                            /\ last' = Call("handle_equip_item", data, FALSE,
                                            "already equipped", 0, 0, 0, 0)
                            /\ UNCHANGED equipment
                       ELSE /\ equipment' =
                                 Append(equipment,
                                        Equipment(CharacterId,
                                                  inventory_item.item_id,
                                                  inventory_item.item_type))
                            /\ inv_state' = inv_state
                            /\ last' = Call("handle_equip_item", data, TRUE,
                                            "equipped", 0, 0, 0, 0)
  /\ UNCHANGED <<character, pc, xp, state, current_monster, inventory,
                 store>>

\* The dispatcher hands one update to the handler that the conversation
\* states select; the draws are those of the handler that the data selects.
Next ==
  \/ \E pv \in Variances, mv \in Variances, commit_ok \in BOOLEAN :
        handle_combat_action("attack", pv, mv, 0, commit_ok)
  \/ \E roll \in FleeRolls, mv \in Variances, commit_ok \in BOOLEAN :
        handle_combat_action("flee", 0, mv, roll, commit_ok)
  \/ \E action \in CombatCallbackData \ {"attack", "flee"} :
        handle_combat_action(action, 0, 0, 0, TRUE)
  \/ combat
  \/ \E data \in UNION { SkillCallbackData(class) : class \in CharacterClass } :
        choosing_skill_callback(data)
  \/ inventory_command
  \/ \E action \in InventoryCallbackData : handle_inventory_action(action)
  \/ \E data \in UseCallbackData : handle_use_item(data)

Spec == Init /\ [][Next]_vars

(***************************************************************************)
(* select_monster_for_level on its own: SpecSelect calls it for levels of  *)
(* SelectLevels on tables of SelectCatalogs, up to MaxSelections times.    *)
(* current_monster holds the Monster that the last call returned.          *)
(***************************************************************************)
MaxSelections == 3

SelectLevels == 1..8

\* Tables with no row, with the three default monsters in two orders, and
\* with monsters that earlier calls have made of the template
SelectCatalogs ==
  { <<>>,
    << MonsterDict("Goblin", 1, 50, 5, 2, 10),
       MonsterDict("Orc Warrior", 5, 150, 15, 8, 50),
       MonsterDict("Dragon", 20, 1000, 50, 30, 500) >>,
    << MonsterDict("Orc Warrior", 5, 150, 15, 8, 50),
       MonsterDict("Goblin", 1, 50, 5, 2, 10) >>,
    << MonsterDict("Goblin", 7, 50, 5, 2, 10),
       MonsterDict("Goblin", 3, 50, 5, 2, 10) >> }

InitSelect ==
  /\ character = CharacterAt("warrior", 1, Big(0), 100)
  /\ pc = "idle"
  /\ xp = [calls |-> 0, start |-> character, granted |-> Big(0),
           call_start |-> character, amount |-> Big(0),
           last_level_up |-> NoLevelUp, spin |-> 0]
  /\ state = END
  /\ current_monster = NoMonster
  /\ inventory = <<>>
  /\ inv_state = END
  /\ last = NoCall
  /\ updates = 0
  /\ store = character
  /\ catalog \in SelectCatalogs
  /\ commit_failures = 0
  /\ default_monster = DefaultMonsterTemplate
  /\ equipment = <<>>
  /\ character_cache = Fresh
  /\ items_table = <<>>

\* One call select_monster_for_level(character_level)
select_monster(character_level) ==
  /\ updates < MaxSelections
  /\ updates' = updates + 1
  /\ LET selected == select_monster_for_level(catalog, default_monster,
                                              character_level)
     IN  /\ catalog' = selected.rows
         /\ default_monster' = selected.template
         /\ current_monster' = selected.monster
  /\ last' = Call("select_monster_for_level", character_level, FALSE,
                  "returned", 0, 0, 0, 0)
  /\ UNCHANGED <<character, pc, xp, state, inventory, inv_state, store,
                 commit_failures,
                 equipment,
                 character_cache,
                 items_table>>

NextSelect == \E character_level \in SelectLevels : select_monster(character_level)

SpecSelect == InitSelect /\ [][NextSelect]_vars

\* Inventory.capacity: the default of the column, which no code reads
INVENTORY_CAPACITY == 20

\* The five Float columns of Item that hold its stats.  A Float is kept in
\* hundredths, so that the products with the multipliers below are exact.
StatColumns == {"damage", "defense", "health_bonus", "mana_bonus", "strength_bonus"}
Hundredths(x) == 100 * x

\* config.RARITY_MULTIPLIERS, in hundredths
RARITY_MULTIPLIERS == [common |-> 100, uncommon |-> 150, rare |-> 200, mythical |-> 300, legendary |-> 400, immortal |-> 500]

\* Item.apply_rarity_multiplier: the five stats times the multiplier of the
\* item's rarity.  multiplier_applied counts the calls made on the item.
apply_rarity_multiplier(item) ==
  [f \in DOMAIN item |->
     IF f \in StatColumns
     THEN (item[f] * RARITY_MULTIPLIERS[item.rarity]) \div 100
     ELSE IF f = "multiplier_applied" THEN item[f] + 1 ELSE item[f]]

\* Item(**item_data): the columns named in item_data, the defaults of the
\* other columns (rarity COMMON, stats 0).  The class has no __init__ and
\* nothing calls apply_rarity_multiplier.
Item(item_data) ==
  [f \in StatColumns \cup {"item_type", "rarity", "multiplier_applied"} |->
     IF f = "multiplier_applied" THEN 0
     ELSE IF f \in DOMAIN item_data
     THEN IF f \in StatColumns THEN Hundredths(item_data[f]) ELSE item_data[f]
     ELSE IF f = "rarity" THEN "common" ELSE 0]

\* The same list with twenty-one starting items
get_starting_items_many(character_class) ==
  [k \in 1..21 |-> [item_type |-> "weapon", damage |-> 1]]

\* get_starting_items: the item_data of the two starting items of a class
get_starting_items(character_class) ==
  IF character_class = "warrior"
  THEN << [item_type |-> "weapon", damage |-> 5, defense |-> 0],
          [item_type |-> "armor", damage |-> 0, defense |-> 3] >>
  ELSE IF character_class = "mage"
  THEN << [item_type |-> "weapon", damage |-> 3, mana_bonus |-> 5],
          [item_type |-> "armor", defense |-> 2, mana_bonus |-> 3] >>
  ELSE << [item_type |-> "weapon", damage |-> 4],
          [item_type |-> "armor", defense |-> 2] >>

\* create_character, called by name_entry at the end of the registration
\* conversation, which start() lets begin only for a player without a
\* character: the row of the character with the defaults of its columns, one
\* row of items and one inventory entry of quantity 1 for each starting item,
\* the commit, and clear_character_cache.
create_character(character_class) ==
  /\ Dispatch
  /\ store = NoCharacter
  /\ LET starting_items == get_starting_items(character_class)
         first == Len(items_table)
         rows == [k \in 1..Len(starting_items) |->
                    [id |-> 10 + first + k] @@ Item(starting_items[k])]
     IN  /\ items_table' = items_table \o rows
         /\ inventory' =
              inventory \o
              [k \in 1..Len(rows) |->
                 InventoryItem(first + k, rows[k].item_type,
                               rows[k].health_bonus \div 100,
                               rows[k].mana_bonus \div 100, 1)]
  /\ store' = CharacterAt(character_class, 1, Big(0), BASE_HEALTH)
  /\ character_cache' = NoEntry
  /\ last' = Call("create_character", character_class, FALSE, "created",
                  0, 0, 0, 0)
  /\ UNCHANGED <<character, pc, xp, state, current_monster, inv_state,
                 catalog, commit_failures, default_monster, equipment>>

\* The clock: TimeStep seconds go by between two updates, until the entry
\* of the cache is CACHE_TIMEOUT seconds old
TimeStep == 150

pass_time ==
  /\ pc = "idle"
  /\ character_cache.cached
  /\ character_cache.age < CACHE_TIMEOUT
  /\ character_cache' = Entry(character_cache.age + TimeStep)
  /\ UNCHANGED <<character, pc, xp, state, current_monster, inventory,
                 inv_state, last, updates, store, catalog, commit_failures,
                 default_monster, equipment, items_table>>

(***************************************************************************)
(* The inventory conversation on its own: SpecInv is a session with no     *)
(* encounter in it, of a player without a character yet or of a character  *)
(* that carries the starting items of its class, with or without           *)
(* consumables or a second weapon.                                         *)
(***************************************************************************)
\* An inventory with a second weapon besides the starting items: no column
\* and no code keeps the rows of inventory_items to one item of each type
ArmouryInventories ==
  { << InventoryItem(1, "weapon", 0, 0, 1), InventoryItem(2, "armor", 0, 0, 1),
       InventoryItem(3, "weapon", 0, 0, 1) >> }

InventoryCharacters ==
  { CharacterAt("warrior", 1, Big(0), 100),
    CharacterAt("mage", 4, BigSub(LevelUpRequirements[4], Big(5)), 12) }

InitInv ==
  /\ \/ /\ character \in InventoryCharacters
        /\ inventory \in Inventories \cup ArmouryInventories
        /\ character_cache = Fresh
     \/ /\ character = NoCharacter
        /\ inventory = <<>>
        /\ character_cache = NoEntry
  /\ pc = "idle"
  /\ xp = [calls |-> 0, start |-> character, granted |-> Big(0),
           call_start |-> character, amount |-> Big(0),
           last_level_up |-> NoLevelUp, spin |-> 0]
  /\ state = END
  /\ current_monster = NoMonster
  /\ inv_state = END
  /\ last = NoCall
  /\ updates = 0
  /\ store = character
  /\ catalog = <<>>
  /\ commit_failures = 0
  /\ default_monster = DefaultMonsterTemplate
  /\ equipment = <<>>
  /\ items_table = <<>>

NextInv ==
  \/ inventory_command
  \/ \E action \in InventoryCallbackData \cup {"equip"} :
        handle_inventory_action(action)
  \/ \E data \in UseCallbackData : handle_use_item(data)
  \/ \E data \in EquipCallbackData : handle_equip_item(data)
  \/ \E character_class \in CharacterClass : create_character(character_class)
  \/ pass_time

SpecInv == InitInv /\ [][NextInv]_vars

(***************************************************************************)
(* Character progression: the properties checked under SpecXP.             *)
(***************************************************************************)
Returned == pc = "idle" /\ xp.calls > 0

\* C1: when add_experience returns for a character that was below level 100,
\* the experience is the old experience plus the amount and is below the
\* requirement of the resulting level, and every level gained was due: the
\* experience is not below the requirement of the level before the resulting
\* one.  A large amount crosses several levels in the one call.
C1_LevelUpsAsNeeded ==
  (Returned /\ xp.call_start.level < 100) =>
    /\ character.experience = BigAdd(xp.call_start.experience, xp.amount)
    /\ BigLt(character.experience, calculate_level_up_requirements(character))
    /\ character.level >= xp.call_start.level
    /\ (character.level > xp.call_start.level =>
          BigGeq(character.experience,
                 LevelUpRequirements[character.level - 1]))

C1_Witness ==
  /\ Returned
  /\ xp.call_start.level < 100
  /\ character.level >= xp.call_start.level + 3

\* C2: every call of add_experience returns.
C2_AddExperienceTerminates == (pc = "while") ~> (pc = "idle")

\* C3: the calls add_experience(X), add_experience(Y), ... made one after the
\* other leave the character exactly as the single call add_experience(X + Y
\* + ...) from the same starting character does; and the sequence of calls is
\* caught in its loop only where the single call is.
C3_SplitGrantEqualsSingleGrant ==
  LET single == add_experience(xp.start, xp.granted)
  IN  /\ Returned => (~single.hang /\ character = single.character)
      /\ (/\ pc = "while"
          /\ BigGeq(character.experience,
                    calculate_level_up_requirements(character))
          /\ level_up(character).character = character) => single.hang

C3_Witness ==
  /\ Returned
  /\ xp.calls = 2
  /\ xp.call_start.level > xp.start.level
  /\ character.level > xp.call_start.level
  /\ character.health = character.max_health
  /\ xp.start.health < xp.start.max_health

ScenarioB ==
  /\ Returned
  /\ xp.calls = 1
  /\ xp.start.level = 1
  /\ xp.start.experience = Big(0)
  /\ xp.amount = Big(100)

\* C4 as stated: 100 XP to a level-1 character with experience 0 gives level
\* 2, the fixed stat increments, full health and mana, and experience 0.
C4_ScenarioB_ExperienceZero ==
  ScenarioB =>
    /\ character.level = 2
    /\ character.max_health = xp.start.max_health + 10
    /\ character.max_mana = xp.start.max_mana + 5
    /\ character.strength = xp.start.strength + 2
    /\ character.defense = xp.start.defense + 1
    /\ character.health = character.max_health
    /\ character.mana = character.max_mana
    /\ character.experience = Big(0)

\* C4 (amended): 100 XP to a level-1 character with experience 0 gives level
\* 2, the fixed stat increments, full health and mana; the experience is
\* kept, it is 100 after the level-up.
C4_ScenarioB_ExperienceKept ==
  ScenarioB =>
    /\ character.level = 2
    /\ character.max_health = xp.start.max_health + 10
    /\ character.max_mana = xp.start.max_mana + 5
    /\ character.strength = xp.start.strength + 2
    /\ character.defense = xp.start.defense + 1
    /\ character.health = character.max_health
    /\ character.mana = character.max_mana
    /\ character.experience = Big(100)

C4_Witness == ScenarioB /\ xp.start.health < xp.start.max_health

\* C5: level_up on a character of level 100 or more returns false and leaves
\* every field of the character as it was.
C5_LevelUpAtCeiling ==
  (xp.last_level_up.called /\ xp.last_level_up.before.level >= 100) =>
    /\ xp.last_level_up.result = FALSE
    /\ xp.last_level_up.after = xp.last_level_up.before
    /\ character = xp.last_level_up.before

C5_Witness ==
  /\ xp.last_level_up.called
  /\ xp.last_level_up.before.level >= 100
  /\ xp.spin = 0

\* C6: level_up on a character below level 100 returns true, adds 1 to the
\* level, 10 to max_health, 5 to max_mana, 2 to strength and 1 to defense,
\* sets health and mana to the new maxima whatever they were, and changes
\* nothing else (the experience and the class stay).
C6_LevelUpBelowCeiling ==
  (xp.last_level_up.called /\ xp.last_level_up.before.level < 100) =>
    LET b == xp.last_level_up.before
        a == xp.last_level_up.after
    IN  /\ xp.last_level_up.result = TRUE
        /\ a = [character_class |-> b.character_class,
                level      |-> b.level + 1,
                experience |-> b.experience,
                health     |-> b.max_health + 10,
                max_health |-> b.max_health + 10,
                mana       |-> b.max_mana + 5,
                max_mana   |-> b.max_mana + 5,
                strength   |-> b.strength + 2,
                defense    |-> b.defense + 1]
        /\ character = a

C6_Witness ==
  /\ xp.last_level_up.called
  /\ xp.last_level_up.before.level < 100
  /\ xp.last_level_up.before.health < xp.last_level_up.before.max_health

(***************************************************************************)
(* Combat and inventory: the properties checked under Spec.                *)
(***************************************************************************)

\* C7: in every reachable state, after any sequence of attacks, flights,
\* uses of a consumable, level-ups, victories and defeats, the character has
\* 0 <= health <= max_health and 0 <= mana <= max_mana; the use of a
\* consumable whose bonus exceeds what is missing stops at the maximum.
C7_HealthAndManaWithinBounds ==
  /\ 0 <= character.health
  /\ character.health <= character.max_health
  /\ 0 <= character.mana
  /\ character.mana <= character.max_mana
  /\ 0 <= store.health
  /\ store.health <= store.max_health
  /\ 0 <= store.mana
  /\ store.mana <= store.max_mana

\* The item that the last call of handle_use_item was asked to use
UsedItems ==
  {last.inventory_before[i] : i \in
     {j \in 1..Len(last.inventory_before) :
        last.inventory_before[j].id = last.data[2]}}

\* A consumable has been used whose bonus exceeds what was missing
C7_Witness ==
  /\ last.handler = "handle_use_item"
  /\ last.outcome = "used"
  /\ \E item \in UsedItems :
       last.store_before.health + item.health_bonus
         > last.store_before.max_health
  /\ store.health = store.max_health

\* C8: in every reachable state the level is within 1..100, and no operation
\* (grant of experience, combat turn, defeat, use of an item) decreases it.
C8_LevelWithinRangeAndMonotone ==
  /\ [](character.level \in 1..100)
  /\ [][character'.level >= character.level]_vars

\* A victory has raised the level
C8_Witness ==
  /\ last.handler = "handle_attack"
  /\ last.outcome = "victory"
  /\ character.level > last.character_before.level

\* C9: in an Attack the player's damage is applied first; if it brings the
\* monster's health to 0 the session ends (victory) and the character's
\* health is not reduced in that turn; otherwise exactly one counter-attack
\* is applied in the same turn, and the session ends (defeat) if the
\* character's health reaches 0 and stays in combat otherwise.
C9_AttackTurnOrder ==
  last.handler = "handle_attack" =>
    /\ ~last.raised
    /\ LET c0 == last.character_before
           m0 == last.monster_before
           dealt == (c0.strength * last.player_variance) \div 100
           left == Max(0, m0.health.int - dealt)
       IN  /\ current_monster.health.int = left
           /\ IF left = 0
              THEN /\ state = END
                   /\ character.health >= c0.health
              ELSE /\ last.monster_variance \in Variances
                   /\ LET taken == calculate_monster_damage(
                                     m0, last.monster_variance)
                      IN  IF c0.health - taken <= 0
                          THEN state = END
                          ELSE /\ state = IN_COMBAT
                               /\ character.health = c0.health - taken

\* What the last call took from the monster and from the character
MonsterLoss ==
  IF IsNumber(last.monster_before.health)
  THEN last.monster_before.health.int - current_monster.health.int
  ELSE IF current_monster = last.monster_before THEN 0 ELSE 1
CharacterLoss == last.character_before.health - character.health

\* One effect of the player, one counter-attack, for the draws of the call
OnePlayerEffect ==
  (last.character_before.strength * last.player_variance) \div 100
OneCounterAttack ==
  calculate_monster_damage(last.monster_before, last.monster_variance)

\* C10: one call of Attack, Skill or a failed Flee applies at most one effect
\* of the player to the monster and at most one counter-attack to the
\* character; Item and a successful Flee do not reduce the character's
\* health.
C10_AtMostOneEffectPerCall ==
  /\ last.handler \in {"handle_attack", "handle_skill_selection",
                       "handle_flee"}
       => /\ MonsterLoss <= OnePlayerEffect
          /\ CharacterLoss <= OneCounterAttack
  /\ last.handler = "handle_item_selection" => CharacterLoss <= 0
  /\ (last.handler = "handle_flee" /\ last.outcome = "fled")
       => CharacterLoss <= 0

\* A failed flight has cost the character one counter-attack
C10_Witness ==
  /\ last.handler = "handle_flee"
  /\ last.outcome = "continue"
  /\ CharacterLoss = OneCounterAttack
  /\ CharacterLoss > 0

\* The health that the snapshot m was taken with, and the experience_reward
\* of the monster it was taken from
SnapshotHealth(m) ==
  IF IsNumber(m.health) THEN m.health.int
  ELSE (CHOOSE row \in DEFAULT_MONSTERS : row.name = m.name).max_health
SnapshotReward(m) ==
  (CHOOSE row \in DEFAULT_MONSTERS : row.name = m.name).experience_reward

\* C11: with the variance draws at 1.0, an Attack by a character of strength
\* S on a monster that survives it takes exactly S from the health of the
\* encounter's snapshot, and the counter-attack takes exactly the monster's
\* damage from the character's health (no defense is subtracted): strength
\* 10 on health 50, damage 5 leaves 40 and max_health - 5.
C11_AttackAtUnitVariance ==
  (/\ last.handler = "handle_attack"
   /\ last.player_variance = 100
   /\ last.monster_variance \in {0, 100}) =>
    LET c0 == last.character_before
        m0 == last.monster_before
    IN  (/\ SnapshotHealth(m0) - c0.strength > 0
         /\ c0.health - m0.damage > 0) =>
          /\ IsNumber(current_monster.health)
          /\ current_monster.health.int = SnapshotHealth(m0) - c0.strength
          /\ character.health = c0.health - m0.damage

DefeatedInLastCall ==
  LET c0 == last.character_before
      m0 == last.monster_before
      taken == calculate_monster_damage(m0, last.monster_variance)
  IN  \/ /\ last.handler = "handle_flee"
         /\ last.roll >= 50
         /\ c0.health - taken <= 0
      \/ /\ last.handler = "handle_attack"
         /\ IsNumber(m0.health)
         /\ m0.health.int - OnePlayerEffect > 0
         /\ c0.health - taken <= 0

\* C13: whenever an encounter ends in defeat, health is max_health and mana
\* is max_mana afterwards, whatever they were before, and no other field of
\* the character (level, experience, strength, defense) and nothing of the
\* inventory is changed by the defeat.
C13_DefeatRestores ==
  DefeatedInLastCall =>
    /\ character = [last.character_before EXCEPT
                      !.health = last.character_before.max_health,
                      !.mana = last.character_before.max_mana]
    /\ inventory = last.inventory_before

\* A wounded character has been defeated and the encounter has ended
C13_Witness ==
  /\ DefeatedInLastCall
  /\ state = END
  /\ last.character_before.health < last.character_before.max_health
  /\ character.health = character.max_health

\* C14: whenever an encounter ends in victory (an Attack has brought the
\* monster's health to 0), the character's experience has grown by exactly
\* the experience_reward of the monster the snapshot was taken from, with
\* the level-ups that follow, and nothing has been added to the inventory.
C14_VictoryGrantsReward ==
  (/\ last.handler = "handle_attack"
   /\ last.commit_ok
   /\ SnapshotHealth(last.monster_before) - OnePlayerEffect <= 0) =>
    /\ state = END
    /\ character.experience =
         BigAdd(last.character_before.experience,
                Big(SnapshotReward(last.monster_before)))
    /\ inventory = last.inventory_before

\* C16: from CHOOSING_SKILL, the callback of one of the class's two skills
\* resolves the skill: it does not fail, and the monster snapshot's health
\* drops by floor(strength * damage_multiplier * variance) for that skill
\* and some variance draw, so that the snapshot's health has changed.
C16_SkillResolves ==
  (/\ last.handler = "handle_skill_selection"
   /\ last.data \in SkillCallbackData(last.character_before.character_class)
                    \ {"back"}) =>
    LET c0 == last.character_before
        m0 == last.monster_before
        skills == get_character_skills(c0.character_class)
    IN  /\ ~last.raised
        /\ IsNumber(current_monster.health)
        /\ \E i \in DOMAIN skills, v \in Variances :
              /\ last.data = "skill_" \o skills[i].id
              /\ current_monster.health.int =
                   Max(0, SnapshotHealth(m0)
                          - (c0.strength * skills[i].damage_multiplier * v)
                              \div 1000)
        /\ current_monster # m0

\* C17: an Item action of a character that carries consumables offers them:
\* the call does not fail and the session goes to CHOOSING_ITEM, from where
\* a consumable can be selected; no counter-attack is applied, so the
\* character's health is not lower after the Item action than before it.
C17_ItemOffersConsumables ==
  (/\ last.handler = "handle_item_selection"
   /\ get_consumable_items(last.inventory_before) # <<>>) =>
    /\ ~last.raised
    /\ state = CHOOSING_ITEM
    /\ character.health >= last.character_before.health

\* The last call was an Attack that went through handle_combat_victory
VictoryInLastCall ==
  /\ last.handler = "handle_attack"
  /\ last.outcome = "victory"

\* C18: an ended encounter is terminal.  Once the combat conversation has
\* ended, the session holds no monster snapshot any more, and the experience
\* reward of an encounter is granted at most once: a victory is never
\* granted over a monster whose health was already 0.
C18_EndedIsTerminal ==
  /\ (state = END /\ last # NoCall) => current_monster = NoMonster
  /\ VictoryInLastCall => last.monster_before.health.int > 0

\* The last call was a turn that resolved an Attack or a failed Flee and
\* came to its commit
ResolvedTurn ==
  /\ last.handler \in {"handle_attack", "handle_flee"}
  /\ last.player_hits + last.monster_hits > 0
  /\ last.outcome \in {"victory", "defeat", "continue"}

\* C19: a resolved turn is atomic with respect to its commit.  If the commit
\* fails, the monster snapshot, the character and the stored row are all as
\* they were before the turn; if it succeeds, the stored row is the
\* character as the turn left it.
C19_TurnAtomic ==
  ResolvedTurn =>
    IF last.commit_ok
    THEN store = character
    ELSE /\ current_monster = last.monster_before
         /\ character = last.character_before
         /\ store = last.store_before

\* C20: the snapshot of an encounter is a copy.  Whatever the combat actions
\* of any encounter have done to a snapshot, every monster of the catalog
\* still has its full health, and the snapshot that /combat stores is the
\* get_stats of a catalog monster at that full health.
C20_SnapshotIsCopy ==
  /\ \A i \in DOMAIN catalog :
        catalog[i].health = PyInt(catalog[i].max_health)
  /\ last.handler = "combat" =>
        \E i \in DOMAIN catalog :
          /\ current_monster = get_stats(catalog[i])
          /\ current_monster.health =
               PyStr(ToString(catalog[i].max_health) \o "/"
                     \o ToString(catalog[i].max_health))

\* An encounter in which the snapshot of a monster lost health has ended,
\* and /combat has started another one against the catalog monster of the
\* same name
C20_Witness ==
  /\ last.handler = "combat"
  /\ last.monster_before.name = current_monster.name
  /\ IsNumber(last.monster_before.health)
  /\ last.monster_before.health.int < last.monster_before.max_health
  /\ \E i \in DOMAIN catalog : current_monster = get_stats(catalog[i])

\* The rows of rows whose level lies within 2 of character_level
LevelWindow(rows, character_level) ==
  { i \in DOMAIN rows : /\ rows[i].level >= character_level - 2
                        /\ rows[i].level <= character_level + 2 }

C22_SelectionConverges ==
  [][/\ Len(catalog') <= Len(catalog) + 1
     /\ default_monster' = DefaultMonsterTemplate
     /\ (/\ last.handler = "select_monster_for_level"
         /\ last'.data = last.data)
          => /\ catalog' = catalog
             /\ current_monster' = current_monster]_vars

\* A call has made a monster of the template and added it, and the next
\* call at the same level has returned that monster and added nothing
C22_Witness ==
  /\ last.handler = "select_monster_for_level"
  /\ updates = 2
  /\ Len(catalog) = 1
  /\ catalog = last.catalog_before
  /\ current_monster = catalog[1]
  /\ current_monster = [DefaultMonsterTemplate EXCEPT !.level = last.data]
  /\ default_monster = DefaultMonsterTemplate

\* C23: a use of an inventory entry that is not a consumable is refused and
\* changes nothing: the character (health and mana included), the stored
\* row, the entry's quantity and the entries of the inventory are as before.
C23_NonConsumableRefused ==
  (/\ last.handler = "handle_use_item"
   /\ last.data # back_to_inventory
   /\ UsedItems # {}
   /\ \E item \in UsedItems : item.item_type # "consumable") =>
    /\ ~last.raised
    /\ last.outcome = "cannot be used"
    /\ character = last.character_before
    /\ store = last.store_before
    /\ inventory = last.inventory_before

\* The use of a weapon has been asked for in USING_ITEM and refused
C23_Witness ==
  /\ last.handler = "handle_use_item"
  /\ last.data # back_to_inventory
  /\ \E item \in UsedItems : item.item_type = "weapon"
  /\ inv_state = END
  /\ inventory = last.inventory_before

\* The quantity that the entry of InventoryItem.id id has in items, 0 if
\* there is no such entry
QuantityOf(items, id) ==
  LET found == {i \in 1..Len(items) : items[i].id = id}
  IN  IF found = {} THEN 0
      ELSE items[CHOOSE i \in found : \A j \in found : i <= j].quantity

\* C24: every entry of the inventory has a quantity of 1 or more, and a
\* use that goes through takes exactly 1 from the quantity of the entry
\* used, removes the entry when that leaves 0 and leaves the other entries
\* as they were, so that an entry of quantity n is used up by n uses.
C24_QuantityDecrements ==
  /\ \A i \in 1..Len(inventory) : inventory[i].quantity >= 1
  /\ (last.handler = "handle_use_item" /\ last.outcome = "used") =>
       /\ QuantityOf(last.inventory_before, last.data[2]) >= 1
       /\ QuantityOf(inventory, last.data[2]) =
            QuantityOf(last.inventory_before, last.data[2]) - 1
       /\ \A id \in ItemIds \ {last.data[2]} :
            QuantityOf(inventory, id) = QuantityOf(last.inventory_before, id)
       /\ Len(inventory) =
            IF QuantityOf(inventory, last.data[2]) = 0
            THEN Len(last.inventory_before) - 1
            ELSE Len(last.inventory_before)
  /\ (last.handler = "handle_use_item" /\ last.outcome = "not found") =>
       QuantityOf(last.inventory_before, last.data[2]) = 0

\* The potion that there were two of has been used a second time and its
\* entry is gone
C24_Witness ==
  /\ last.handler = "handle_use_item"
  /\ last.outcome = "used"
  /\ last.data[2] = 3
  /\ QuantityOf(last.inventory_before, 3) = 1
  /\ QuantityOf(inventory, 3) = 0
  /\ Len(inventory) = 3

\* C25: after any sequence of equips there is at most one Equipment row
\* for each character and item, and the equip of an item that is already
\* equipped is refused and leaves the rows of equipment as they were.
C25_EquipOncePerItem ==
  /\ \A i, j \in 1..Len(equipment) :
        (/\ equipment[i].character_id = equipment[j].character_id
         /\ equipment[i].item_id = equipment[j].item_id) => i = j
  /\ (/\ last.handler = "handle_equip_item"
      /\ last.data # back_to_inventory
      /\ \E item \in UsedItems :
            existing_equipment(last.equipment_before, CharacterId,
                               item.item_id) # <<>>) =>
       /\ last.outcome = "already equipped"
       /\ equipment = last.equipment_before

\* The item that an earlier equip had equipped has been asked for again and
\* refused, with its one row left
C25_Witness ==
  /\ last.handler = "handle_equip_item"
  /\ last.outcome = "already equipped"
  /\ Len(equipment) = 1
  /\ \E item \in UsedItems : equipment[1].item_id = item.item_id

\* C26: Drop Item and then the button of an inventory entry (drop_<id>)
\* removes that entry from the inventory, whatever its quantity, and leaves
\* every other entry as it was.
C26_DropRemovesEntry ==
  (/\ last.handler = "handle_inventory_action"
   /\ last.data = "drop_3"
   /\ QuantityOf(last.inventory_before, 3) >= 1) =>
    /\ QuantityOf(inventory, 3) = 0
    /\ Len(inventory) = Len(last.inventory_before) - 1
    /\ \A id \in ItemIds \ {3} :
         QuantityOf(inventory, id) = QuantityOf(last.inventory_before, id)


\* The item_data that create_character passed to Item for the k-th row of
\* items, taken from the class of the stored character
item_data_of(k) == get_starting_items(store.character_class)[k]

\* The base value, in hundredths, of a stat in an item_data
BaseStat(item_data, f) == IF f \in DOMAIN item_data THEN Hundredths(item_data[f]) ELSE 0

(* C27: every item created by the program has each of its five stats      *)
(* equal to base stat x RARITY_MULTIPLIERS[rarity], the multiplier having  *)
(* been applied exactly once at creation, never zero times and never a     *)
(* second time.                                                            *)
C27_MultiplierAppliedOnce ==
  \A k \in 1..Len(items_table) :
    /\ items_table[k].multiplier_applied = 1
    /\ \A f \in StatColumns :
         items_table[k][f] * 100 =
           BaseStat(item_data_of(k), f) * RARITY_MULTIPLIERS[items_table[k].rarity]


(* C28: the character cache is invalidated whenever the stored character   *)
(* is changed behind it: while the player's entry is within the time to    *)
(* live, a lookup by player id never returns a character whose fields      *)
(* differ from the stored row.                                             *)
C28_CacheNeverStale ==
  (character_cache.cached /\ character_cache.age < CACHE_TIMEOUT)
    => get_character_by_user_id(character_cache, character, store).character
         = store


HealthIsPositive(monster) ==
  IF IsNumber(monster.health) THEN monster.health.int > 0
  ELSE \E m \in DEFAULT_MONSTERS :
          m.health.int > 0 /\ monster.health = get_stats(m).health

C32_SelectionCanBeLeft ==
  (pc = "idle" /\ updates < MaxUpdates /\ state \in {CHOOSING_SKILL, CHOOSING_ITEM})
    => ENABLED (Next /\ state' \notin {CHOOSING_SKILL, CHOOSING_ITEM})

(* C33: an encounter in which the player presses Attack on every turn ends *)
(* after finitely many turns: the character's strength is at least 10, so  *)
(* every attack deals at least floor(0.8 * 10) = 8 damage, and an attack   *)
(* that does not end the session leaves the health of the monster snapshot *)
(* strictly lower than it found it.                                        *)
C33_AttackMakesProgress ==
  /\ character.strength >= BASE_STRENGTH
  /\ last.handler = "handle_attack" =>
       \/ state = END
       \/ /\ IsNumber(current_monster.health)
          /\ IsNumber(last.monster_before.health)
          /\ current_monster.health.int + 8 <= last.monster_before.health.int

(* C34: after any sequence of equips a character has at most one Equipment *)
(* row for each slot (weapon, armor): the equip of a second, different     *)
(* item of the same type does not leave two items worn in one slot.        *)
C34_OneEquipmentPerSlot ==
  \A i, j \in 1..Len(equipment) :
    (/\ equipment[i].character_id = equipment[j].character_id
     /\ equipment[i].slot \in {"weapon", "armor"}
     /\ equipment[i].slot = equipment[j].slot) => i = j

\* The entry of the cache has reached CACHE_TIMEOUT
Expired(cache) == cache.cached /\ cache.age >= CACHE_TIMEOUT

(* C35: the character cache never serves an expired entry and never caches *)
(* absence: a lookup whose entry is CACHE_TIMEOUT (300 s) old or older     *)
(* returns the stored row and replaces the entry by one with the time of   *)
(* the lookup; a lookup that finds no character in the store makes no      *)
(* entry; and a lookup with no entry finds the character that has been     *)
(* created since.                                                          *)
C35_ExpiryAndNoCachedAbsence ==
  [][(last'.handler = "inventory" /\ updates' = updates + 1) =>
       /\ (Expired(character_cache) /\ store # NoCharacter) =>
            /\ character' = store
            /\ character_cache' = Fresh
       /\ (~character_cache.cached /\ store = NoCharacter) =>
            /\ character_cache' = NoEntry
            /\ last'.outcome = "no character"
       /\ (~character_cache.cached /\ store # NoCharacter) =>
            /\ character' = store
            /\ character_cache' = Fresh
            /\ last'.outcome = "menu"]_vars

\* A lookup has met an entry 300 seconds old behind which a potion had
\* changed the stored row: it has returned the row and made a new entry
C35_Witness ==
  /\ last.handler = "inventory"
  /\ Expired(last.cache_before)
  /\ last.character_before # last.store_before
  /\ character = store
  /\ character_cache = Fresh

====
